---- MODULE Spec2Model ----
(***************************************************************************)
(* Model of crates/runc/src/monitor.rs: the ProcessMonitor trait with its  *)
(* default bodies of start() and wait(), the Exit record, and the tokio    *)
(* oneshot channel (Sender<Exit> / Receiver<Exit>) the caller supplies.    *)
(*                                                                         *)
(* Every start/wait pair ("invocation") has its own channel, child process *)
(* and local variables; start() is split at the points where other tasks,  *)
(* the child process or the wall clock can interleave.                     *)
(*                                                                         *)
(* Spec runs NumInv pairs together; PairSpec runs one pair on its own and  *)
(* FairPairSpec adds the fairness of the runtime's polling to it.          *)
(***************************************************************************)
EXTENDS Integers, FiniteSets, Sequences, TLC

\* ------------------------------------------------------------- bounds
\* Number of start/wait pairs in flight.
NumInv == 2
\* The wall clock takes the values 0..MaxClock.
MaxClock == 2
\* The OS hands out process identifiers 1..MaxPid.
MaxPid == 2
\* A process that exits normally returns a code in 0..MaxCode.
MaxCode == 1

Inv == 1..NumInv
Pids == 1..MaxPid
ExitCodes == 0..MaxCode

\* ------------------------------------------------------------- values
\* Option<T>
NoneOpt == [some |-> FALSE]
Some(v) == [some |-> TRUE, v |-> v]

\* std::process::ExitStatus: a normal exit with a code, or death by signal.
Terminations ==
    {[kind |-> "exited", code |-> c] : c \in ExitCodes} \cup {[kind |-> "signaled"]}

\* Faulty variant of StatusCode: a missing code is read as 0.
StatusCode_Default(st) == IF st.kind = "exited" THEN Some(st.code) ELSE Some(0)

\* ExitStatus::code(): Some(code) for a normal exit, None when a signal
\* terminated the process.
StatusCode(st) == IF st.kind = "exited" THEN Some(st.code) ELSE NoneOpt

\* std::io::Error kinds that cmd.spawn() can return.
SpawnErrors == {"NotFound", "PermissionDenied"}

\* The error of a failed wait_with_output().
OutputError == "Other"

\* Results of start(): io::Result<Output>, or the ways the future ends
\* without a value.
NoResult == [kind |-> "None"]
Ok(v) == [kind |-> "Ok", v |-> v]
Err(e) == [kind |-> "Err", err |-> e]
Panicked == [kind |-> "Panic"]
Cancelled == [kind |-> "Cancelled"]

\* Faulty variant of MkExit: pid and status change places.
MkExit_SwapFields(t, p, s) == [ts |-> t, pid |-> s, status |-> p]

\* pub struct Exit { ts, pid, status }
MkExit(t, p, s) == [ts |-> t, pid |-> p, status |-> s]

\* std::process::Output, bytes of stdout/stderr abstracted away.
MkOutput(st) == [status |-> st]

\* ------------------------------------------------------------- oneshot
\* tokio::sync::oneshot channel: the slot for the value and whether each
\* endpoint still exists.
NewChan == [value |-> NoneOpt, txAlive |-> TRUE, rxAlive |-> TRUE]

\* Faulty variant of OneshotSend: the value is stored and Ok returned also
\* when the receiver is gone.
OneshotSend_IgnoreClosed(ch, v) ==
    [chan |-> [ch EXCEPT !.value = Some(v), !.txAlive = FALSE], ok |-> TRUE]

\* Sender::send(v) consumes the sender; it fails, handing the value back,
\* when the receiver is already gone.
OneshotSend(ch, v) ==
    IF ch.rxAlive
      THEN [chan |-> [ch EXCEPT !.value = Some(v), !.txAlive = FALSE], ok |-> TRUE]
      ELSE [chan |-> [ch EXCEPT !.txAlive = FALSE], ok |-> FALSE]

\* Faulty variant of DropSender: the sender is leaked, the channel never
\* learns that it is gone.
DropSender_Leaked(ch) == ch

\* Dropping the Sender without sending.
DropSender(ch) == [ch EXCEPT !.txAlive = FALSE]

\* Dropping the Receiver: the channel is closed and a value in it is dropped.
DropReceiver(ch) == [ch EXCEPT !.rxAlive = FALSE, !.value = NoneOpt]

\* Faulty variant of OneshotRecv: a sender that is gone is looked at before
\* the value, so a value sent by a sender since consumed is lost.
OneshotRecv_ClosedFirst(ch) ==
    IF ~ch.txAlive THEN [kind |-> "Closed"]
    ELSE IF ch.value.some THEN [kind |-> "Value", v |-> ch.value.v]
    ELSE [kind |-> "Pending"]

\* Faulty variant of OneshotRecv: the receiver is not told that the sender is
\* gone.
OneshotRecv_NoCloseNotice(ch) ==
    IF ch.value.some THEN [kind |-> "Value", v |-> ch.value.v]
    ELSE [kind |-> "Pending"]

\* Polling the Receiver: a value that was sent is returned even though the
\* sender is gone by then; a sender gone without a value is RecvError;
\* otherwise the poll is pending.
OneshotRecv(ch) ==
    IF ch.value.some THEN [kind |-> "Value", v |-> ch.value.v]
    ELSE IF ~ch.txAlive THEN [kind |-> "Closed"]
    ELSE [kind |-> "Pending"]

\* ------------------------------------------------------------- state
VARIABLES
    clock,      \* the wall clock (OffsetDateTime::now_utc())
    proc,       \* per invocation: the child process as the OS sees it
    chan,       \* per invocation: the oneshot channel
    startPc,    \* per invocation: where start() is
    startAt,    \* per invocation: the clock when start() was invoked
    locals,     \* per invocation: start()'s pid, out and ts
    startRes,   \* per invocation: how start() ended
    waitPc,     \* per invocation: where wait() is
    waitRes,    \* per invocation: what wait() returned
    hist        \* per invocation: history of the run (not program state)

vars == <<clock, proc, chan, startPc, startAt, locals, startRes, waitPc, waitRes, hist>>

NoProc == [state |-> "none", pid |-> 0, term |-> [kind |-> "exited", code |-> 0], err |-> ""]
NoLocals == [pid |-> 0, out |-> NoneOpt, ts |-> NoneOpt]
NoHist == [spawns |-> 0, built |-> 0, sent |-> 0, order |-> "none", earlyDrop |-> FALSE, rec |-> NoneOpt]

\* The caller has created one channel per invocation and holds both of its
\* endpoints; nothing has been called yet.
Init ==
    /\ clock = 0
    /\ proc = [i \in Inv |-> NoProc]
    /\ chan = [i \in Inv |-> NewChan]
    /\ startPc = [i \in Inv |-> "init"]
    /\ startAt = [i \in Inv |-> 0]
    /\ locals = [i \in Inv |-> NoLocals]
    /\ startRes = [i \in Inv |-> NoResult]
    /\ waitPc = [i \in Inv |-> "init"]
    /\ waitRes = [i \in Inv |-> NoResult]
    /\ hist = [i \in Inv |-> NoHist]

\* The state Init reaches when the caller discards, unused, both endpoints of
\* every channel but the first (DropTx and DropRx of each): one start/wait
\* pair is left to run.
InitPair ==
    /\ clock = 0
    /\ proc = [i \in Inv |-> NoProc]
    /\ chan = [i \in Inv |-> IF i = 1 THEN NewChan ELSE DropReceiver(DropSender(NewChan))]
    /\ startPc = [i \in Inv |-> IF i = 1 THEN "init" ELSE "done"]
    /\ startAt = [i \in Inv |-> 0]
    /\ locals = [i \in Inv |-> NoLocals]
    /\ startRes = [i \in Inv |-> IF i = 1 THEN NoResult ELSE Cancelled]
    /\ waitPc = [i \in Inv |-> IF i = 1 THEN "init" ELSE "dropped"]
    /\ waitRes = [i \in Inv |-> NoResult]
    /\ hist = [i \in Inv |-> IF i = 1 THEN NoHist ELSE [NoHist EXCEPT !.earlyDrop = TRUE]]

\* Faulty variant of TxOf: every start() sends through one shared channel.
TxOf_Shared(i) == 1

\* The channel whose producer endpoint start() of invocation i holds: the
\* tx the caller passed in.
TxOf(i) == i

\* Faulty variant of NowUtc: the reading is shifted back by an offset, as a
\* local time west of UTC is.
NowUtc_Offset == clock - 1

\* OffsetDateTime::now_utc(): the reading of the wall clock, which Tick only
\* moves forward (a clock set back by its administrator is not modelled).
NowUtc == clock

\* ------------------------------------------------------------- environment
\* The wall clock advances.
Tick ==
    /\ clock < MaxClock
    /\ clock' = clock + 1
    /\ UNCHANGED <<proc, chan, startPc, startAt, locals, startRes, waitPc, waitRes, hist>>

\* The child process terminates, normally or by a signal.
ProcExit(i) ==
    /\ proc[i].state = "running"
    /\ \E t \in Terminations :
         proc' = [proc EXCEPT ![i].state = "exited", ![i].term = t]
    /\ UNCHANGED <<clock, chan, startPc, startAt, locals, startRes, waitPc, waitRes, hist>>

\* The caller discards the producer endpoint without calling start().
DropTx(i) ==
    /\ startPc[i] = "init"
    /\ startPc' = [startPc EXCEPT ![i] = "done"]
    /\ startRes' = [startRes EXCEPT ![i] = Cancelled]
    /\ chan' = [chan EXCEPT ![TxOf(i)] = DropSender(@)]
    /\ UNCHANGED <<clock, proc, startAt, locals, waitPc, waitRes, hist>>

\* The caller discards the consumer endpoint, before calling wait() or by
\* dropping the future of wait() while it is suspended.
DropRx(i) ==
    /\ waitPc[i] \in {"init", "awaiting"}
    /\ waitPc' = [waitPc EXCEPT ![i] = "dropped"]
    /\ chan' = [chan EXCEPT ![i] = DropReceiver(@)]
    /\ hist' = [hist EXCEPT ![i].earlyDrop = (proc[i].state # "exited")]
    /\ UNCHANGED <<clock, proc, startPc, startAt, locals, startRes, waitRes>>

\* ------------------------------------------------------------- start()
\* The caller invokes start(cmd, tx): the future exists and owns tx.
StartCall(i) ==
    /\ startPc[i] = "init"
    /\ startPc' = [startPc EXCEPT ![i] = "spawn"]
    /\ startAt' = [startAt EXCEPT ![i] = clock]
    /\ hist' = [hist EXCEPT ![i].order =
                   IF waitPc[i] = "awaiting" THEN "wait_first" ELSE "start_first"]
    /\ UNCHANGED <<clock, proc, chan, locals, startRes, waitPc, waitRes>>

\* The future of start() is dropped at a point where it is suspended: before
\* its first poll or at the await of wait_with_output(). tx is dropped with it.
CancelStart(i) ==
    /\ startPc[i] \in {"spawn", "wait"}
    /\ startPc' = [startPc EXCEPT ![i] = "done"]
    /\ startRes' = [startRes EXCEPT ![i] = Cancelled]
    /\ chan' = [chan EXCEPT ![TxOf(i)] = DropSender(@)]
    /\ UNCHANGED <<clock, proc, startAt, locals, waitPc, waitRes, hist>>

\* Faulty variant of Propagate: the error is replaced by a generic one.
Propagate_Rewrapped(e) == Err(OutputError)

\* The `?` operator on an io::Result inside a function returning io::Result:
\* the error is returned as it is.
Propagate(e) == Err(e)

\* let chi = cmd.spawn()?;  The OS starts the process under some pid, or
\* refuses; on refusal `?` returns the error and tx is dropped.
\* `onErr` is where start() continues after a refusal.
SpawnStep(i, onErr) ==
    /\ startPc[i] = "spawn"
    /\ \/ \E p \in Pids :
            /\ proc' = [proc EXCEPT ![i].state = "running", ![i].pid = p]
            /\ startPc' = [startPc EXCEPT ![i] = "pid"]
            /\ UNCHANGED <<chan, startRes>>
       \/ \E e \in SpawnErrors :
            /\ proc' = [proc EXCEPT ![i].state = "failed", ![i].err = e]
            /\ startRes' = [startRes EXCEPT ![i] = Propagate(e)]
            /\ chan' = [chan EXCEPT ![TxOf(i)] = DropSender(@)]
            /\ startPc' = [startPc EXCEPT ![i] = onErr]
    /\ hist' = [hist EXCEPT ![i].spawns = @ + 1]
    /\ UNCHANGED <<clock, startAt, locals, waitPc, waitRes>>

\* Faulty variant of Spawn: a refused spawn is tried once more.
Spawn_Retry(i) == SpawnStep(i, IF hist[i].spawns = 0 THEN "spawn" ELSE "done")

\* After a refusal start() returns.
Spawn(i) == SpawnStep(i, "done")

\* Faulty variant of ChildId: no pid is given for a process that has already
\* terminated.
ChildId_NoneOnceExited(i) ==
    IF locals[i].out.some \/ proc[i].state = "exited" THEN NoneOpt ELSE Some(proc[i].pid)

\* Child::id(): the pid while the child has not been waited to completion.
ChildId(i) == IF locals[i].out.some THEN NoneOpt ELSE Some(proc[i].pid)

\* let pid = chi.id().expect(..);
TakePid(i) ==
    /\ startPc[i] = "pid"
    /\ IF ChildId(i).some
         THEN /\ locals' = [locals EXCEPT ![i].pid = ChildId(i).v]
              /\ startPc' = [startPc EXCEPT ![i] = "wait"]
              /\ UNCHANGED <<chan, startRes>>
         ELSE /\ startRes' = [startRes EXCEPT ![i] = Panicked]
              /\ chan' = [chan EXCEPT ![TxOf(i)] = DropSender(@)]
              /\ startPc' = [startPc EXCEPT ![i] = "done"]
              /\ UNCHANGED locals
    /\ UNCHANGED <<clock, proc, startAt, waitPc, waitRes, hist>>

\* Faulty variant of OutputReady: the output is taken from a process that is
\* still running.
OutputReady_NoWait(p) == p.state = "running" \/ p.state = "exited"

\* wait_with_output() completes once the process has terminated.
OutputReady(p) == p.state = "exited"

\* let out = chi.wait_with_output().await?;  -- the Ok case.
CollectOutput(i) ==
    /\ startPc[i] = "wait"
    /\ OutputReady(proc[i])
    /\ locals' = [locals EXCEPT ![i].out = Some(MkOutput(proc[i].term))]
    /\ startPc' = [startPc EXCEPT ![i] = "ts"]
    /\ UNCHANGED <<clock, proc, chan, startAt, startRes, waitPc, waitRes, hist>>

\* let out = chi.wait_with_output().await?;  -- the Err case: waiting or
\* reading a pipe failed; `?` returns the error and tx is dropped.
CollectFail(i) ==
    /\ startPc[i] = "wait"
    /\ startRes' = [startRes EXCEPT ![i] = Propagate(OutputError)]
    /\ chan' = [chan EXCEPT ![TxOf(i)] = DropSender(@)]
    /\ startPc' = [startPc EXCEPT ![i] = "done"]
    /\ UNCHANGED <<clock, proc, startAt, locals, waitPc, waitRes, hist>>

\* let ts = OffsetDateTime::now_utc();
CaptureTs(i) ==
    /\ startPc[i] = "ts"
    /\ locals' = [locals EXCEPT ![i].ts = Some(NowUtc)]
    /\ startPc' = [startPc EXCEPT ![i] = "send"]
    /\ UNCHANGED <<clock, proc, chan, startAt, startRes, waitPc, waitRes, hist>>

\* Faulty variant of StartResult: the arms of the match change places.
StartResult_ArmsSwapped(sendOk, out) == IF sendOk THEN Err("ConnectionRefused") ELSE Ok(out)

\* Faulty variant of StartResult: the output is returned whatever send did.
StartResult_AlwaysOk(sendOk, out) == Ok(out)

\* match tx.send(..) { Ok(_) => Ok(out), Err(e) => Err(ConnectionRefused) }
StartResult(sendOk, out) == IF sendOk THEN Ok(out) ELSE Err("ConnectionRefused")

\* tx.send(Exit { ts, pid, status: out.status.code().unwrap() }) and the
\* match on its result.  unwrap() panics when the status has no code: the
\* record is not built, nothing is sent and tx is dropped by the unwinding.
\* `after` is where start() continues.
SendExitStep(i, after) ==
    /\ startPc[i] = "send"
    /\ LET out == locals[i].out.v
           code == StatusCode(out.status)
       IN  IF ~code.some
             THEN /\ startRes' = [startRes EXCEPT ![i] = Panicked]
                  /\ chan' = [chan EXCEPT ![TxOf(i)] = DropSender(@)]
                  /\ startPc' = [startPc EXCEPT ![i] = "done"]
                  /\ UNCHANGED hist
             ELSE LET rec == MkExit(locals[i].ts.v, locals[i].pid, code.v)
                      r == OneshotSend(chan[TxOf(i)], rec)
                  IN  /\ chan' = [chan EXCEPT ![TxOf(i)] = r.chan]
                      /\ startRes' = [startRes EXCEPT ![i] = StartResult(r.ok, out)]
                      /\ startPc' = [startPc EXCEPT ![i] = after]
                      /\ hist' = [hist EXCEPT ![i].built = @ + 1,
                                              ![i].sent = @ + (IF r.ok THEN 1 ELSE 0),
                                              ![i].rec = Some(rec)]
    /\ UNCHANGED <<clock, proc, startAt, locals, waitPc, waitRes>>

\* Faulty variant of SendExit: the record is built and sent a second time.
SendExit_Retry(i) == SendExitStep(i, IF hist[i].built = 0 THEN "send" ELSE "done")

\* After the send start() returns.
SendExit(i) == SendExitStep(i, "done")

\* ------------------------------------------------------------- wait()
\* The caller invokes wait(rx): the future exists and owns rx.
WaitCall(i) ==
    /\ waitPc[i] = "init"
    /\ waitPc' = [waitPc EXCEPT ![i] = "awaiting"]
    /\ hist' = [hist EXCEPT ![i].order =
                   IF startPc[i] = "init" THEN "wait_first" ELSE @]
    /\ UNCHANGED <<clock, proc, chan, startPc, startAt, locals, startRes, waitRes>>

\* Faulty variant of WaitResult: RecvError is mapped to another error kind.
WaitResult_WrongKind(r) == IF r.kind = "Value" THEN Ok(r.v) ELSE Err("ConnectionRefused")

\* rx.await.map_err(|_| BrokenPipe)
WaitResult(r) == IF r.kind = "Value" THEN Ok(r.v) ELSE Err("BrokenPipe")

\* rx.await completes: with the value, or with RecvError.
WaitRecv(i) ==
    /\ waitPc[i] = "awaiting"
    /\ LET r == OneshotRecv(chan[i])
       IN  /\ r.kind # "Pending"
           /\ waitRes' = [waitRes EXCEPT ![i] = WaitResult(r)]
           /\ chan' = [chan EXCEPT ![i].value = NoneOpt, ![i].rxAlive = FALSE]
    /\ waitPc' = [waitPc EXCEPT ![i] = "done"]
    /\ UNCHANGED <<clock, proc, startPc, startAt, locals, startRes, hist>>

\* ------------------------------------------------------------- specification
Next ==
    \/ Tick
    \/ \E i \in Inv :
         \/ StartCall(i)
         \/ CancelStart(i)
         \/ DropTx(i)
         \/ Spawn(i)
         \/ TakePid(i)
         \/ ProcExit(i)
         \/ CollectOutput(i)
         \/ CollectFail(i)
         \/ CaptureTs(i)
         \/ SendExit(i)
         \/ WaitCall(i)
         \/ WaitRecv(i)
         \/ DropRx(i)

Spec == Init /\ [][Next]_vars

\* One start/wait pair on its own.
PairSpec == InitPair /\ [][Next]_vars

\* The runtime polls a future that can make progress, so every step of
\* start() and wait() that is enabled is eventually taken.  Nothing is
\* assumed of the callers, the clock or the child process.
Fairness ==
    \A i \in Inv :
        /\ WF_vars(Spawn(i))
        /\ WF_vars(TakePid(i))
        /\ WF_vars(CollectOutput(i))
        /\ WF_vars(CaptureTs(i))
        /\ WF_vars(SendExit(i))
        /\ WF_vars(WaitRecv(i))

FairPairSpec == PairSpec /\ Fairness

\* ------------------------------------------------------------- properties
\* start() was driven to its end: it returned or panicked, its future was
\* not dropped.
StartRan(i) == startPc[i] = "done" /\ startRes[i].kind \in {"Ok", "Err", "Panic"}

\* The process of invocation i was spawned and terminated with a numeric
\* status.
ExitedWithCode(i) == proc[i].state = "exited" /\ proc[i].term.kind = "exited"

\* The Exit record of the process of invocation i with timestamp t.
TrueExit(i, t) == [ts |-> t, pid |-> proc[i].pid, status |-> proc[i].term.code]

\* C1: start and wait on one channel may run concurrently in either order
\* without deadlock.  (a) When the process was spawned and exited with a
\* numeric status, output collection did not fail and neither endpoint was
\* discarded, a start that ended ended with Ok and a wait that ended ended
\* with Ok; a wait issued before start returned the Exit record of the
\* process.  (b) Once both are invoked and the process has terminated, both
\* operations end.
C1_Safe(i) ==
    /\ ( /\ StartRan(i)
         /\ ExitedWithCode(i)
         /\ startRes[i] # Err(OutputError)
         /\ waitPc[i] # "dropped" )
       => startRes[i].kind = "Ok"
    /\ ( /\ waitPc[i] = "done"
         /\ startRes[i].kind = "Ok" )
       => /\ waitRes[i].kind = "Ok"
          /\ waitRes[i].v = TrueExit(i, locals[i].ts.v)

C1_StartWaitConcurrent ==
    /\ [](\A i \in Inv : C1_Safe(i))
    /\ \A i \in Inv :
         (startPc[i] # "init" /\ waitPc[i] # "init" /\ proc[i].state = "exited")
           ~> (startPc[i] = "done" /\ waitPc[i] \in {"done", "dropped"})

\* wait was issued before start, and both ended with success.
C1_Witness ==
    /\ hist[1].order = "wait_first"
    /\ startRes[1].kind = "Ok"
    /\ waitRes[1].kind = "Ok"

\* C2: wait has returned an Exit record (or one lies in the channel) only if
\* the process has terminated and start has collected its output.
C2_ExitAfterTermination ==
    \A i \in Inv :
        (waitRes[i].kind = "Ok" \/ chan[i].value.some)
          => /\ proc[i].state = "exited"
             /\ locals[i].out.some
             /\ locals[i].out.v = MkOutput(proc[i].term)

C2_Witness == waitRes[1].kind = "Ok" /\ proc[1].state = "exited"

\* C3: when the producer endpoint is discarded without a value having been
\* transferred, wait ends with BrokenPipe: (a) a wait that ended on a channel
\* through which nothing was sent returned Err(BrokenPipe); (b) a wait
\* suspended on a channel whose sender is gone without a value ends.
C3_AbandonedChannel ==
    /\ [](\A i \in Inv :
            (waitPc[i] = "done" /\ hist[i].sent = 0)
              => waitRes[i] = Err("BrokenPipe"))
    /\ \A i \in Inv :
         (waitPc[i] = "awaiting" /\ ~chan[i].txAlive /\ ~chan[i].value.some)
           ~> (waitPc[i] = "dropped" \/ waitRes[i] = Err("BrokenPipe"))

\* start was cancelled or panicked, and wait returned BrokenPipe.
C3_Witness ==
    /\ startRes[1].kind \in {"Cancelled", "Panic"}
    /\ waitRes[1] = Err("BrokenPipe")

\* C4 (as claimed): when the consumer endpoint was discarded before the
\* process terminated, a start that ran the process to termination and
\* collected its output ends with Err(ConnectionRefused), never with a panic.
C4_DeliveryRefused ==
    \A i \in Inv :
        (hist[i].earlyDrop /\ startPc[i] = "done" /\ locals[i].out.some)
          => startRes[i] = Err("ConnectionRefused")

\* C5: the Exit record wait returns is the record start built; its pid is
\* the pid the OS gave the process at spawn and its status is the code the
\* process exited with.
C5_ExitVerbatim ==
    \A i \in Inv :
        waitRes[i].kind = "Ok"
          => /\ hist[i].rec = Some(waitRes[i].v)
             /\ ExitedWithCode(i)
             /\ waitRes[i].v.pid = proc[i].pid
             /\ waitRes[i].v.status = proc[i].term.code

\* wait returned status 1 for a process with pid 2 that exited with code 1.
C5_Witness ==
    /\ waitRes[1].kind = "Ok"
    /\ waitRes[1].v.status = 1
    /\ waitRes[1].v.pid = 2
    /\ proc[1].term = [kind |-> "exited", code |-> 1]

\* C6: an invocation of start builds at most one Exit record and transfers at
\* most one through its channel; an invocation that returned Ok built
\* exactly one and transferred it.
C6_OneExitPerStart ==
    \A i \in Inv :
        /\ hist[i].built <= 1
        /\ hist[i].sent <= hist[i].built
        /\ startRes[i].kind = "Ok" => (hist[i].built = 1 /\ hist[i].sent = 1)
        /\ (startPc[i] = "done" /\ startRes[i].kind # "Ok") => hist[i].sent = 0

\* start returned Ok after building and transferring one record.
C6_Witness == startRes[1].kind = "Ok" /\ hist[1].built = 1 /\ hist[1].sent = 1

\* C7 (as claimed): once the process was spawned, terminated and its output
\* collected and the transfer was attempted, start returns the collected
\* output whatever the transfer did.
C7_OutputWhateverHandoff ==
    \A i \in Inv :
        (startPc[i] = "done" /\ hist[i].built = 1)
          => startRes[i] = Ok(locals[i].out.v)

\* C7 (amended): start returns the collected output exactly when the
\* transfer succeeded; when the transfer failed it returns
\* Err(ConnectionRefused) and the output is not returned.
C7_OutputIffTransferred ==
    \A i \in Inv :
        (startPc[i] = "done" /\ hist[i].built = 1)
          => /\ hist[i].sent = 1 => startRes[i] = Ok(locals[i].out.v)
             /\ hist[i].sent = 0 => startRes[i] = Err("ConnectionRefused")

\* The output was collected, the transfer failed and start returned the error.
C7_Witness ==
    /\ locals[1].out.some
    /\ hist[1].built = 1
    /\ hist[1].sent = 0
    /\ startRes[1] = Err("ConnectionRefused")

\* C8: when the spawn fails, start ends with the error the OS gave, no Exit
\* record is built or sent, and no value arrives at wait.
C8_SpawnFailure ==
    \A i \in Inv :
        proc[i].state = "failed"
          => /\ startPc[i] = "done"
             /\ startRes[i] = Err(proc[i].err)
             /\ hist[i].built = 0
             /\ hist[i].sent = 0
             /\ ~chan[i].value.some
             /\ waitRes[i].kind # "Ok"

\* The spawn failed with NotFound and wait has ended.
C8_Witness ==
    /\ proc[1].state = "failed"
    /\ proc[1].err = "NotFound"
    /\ waitPc[1] = "done"

\* Everything that belongs to invocation i.
PairState(i) ==
    <<proc[i], chan[i], startPc[i], startAt[i], locals[i], startRes[i],
      waitPc[i], waitRes[i], hist[i]>>

\* C9: invocations in flight together share no state.  (a) The value in the
\* channel of invocation i, and the record its wait returned, is the record
\* start of invocation i built.  (b) A step that changes anything of one
\* invocation (a transfer, a failure, an endpoint discarded) changes nothing
\* of another.
C9_Independent ==
    /\ [](\A i \in Inv :
            /\ chan[i].value.some => hist[i].rec = chan[i].value
            /\ waitRes[i].kind = "Ok" => hist[i].rec = Some(waitRes[i].v))
    /\ [][\A i, j \in Inv :
            (i # j /\ PairState(i)' # PairState(i)) => PairState(j)' = PairState(j)]_vars

\* Two invocations were in flight: the second lost its consumer endpoint and
\* start failed there, the first delivered its record.
C9_Witness ==
    /\ waitRes[1].kind = "Ok"
    /\ startRes[1].kind = "Ok"
    /\ waitPc[2] = "dropped"
    /\ startRes[2] = Err("ConnectionRefused")

C11_SignalAbort ==
    \A i \in Inv :
        (proc[i].state = "exited" /\ proc[i].term.kind = "signaled")
          => /\ hist[i].built = 0
             /\ hist[i].sent = 0
             /\ ~chan[i].value.some
             /\ startRes[i].kind \notin {"Ok"}
             /\ startRes[i] # Err("ConnectionRefused")
             /\ (startPc[i] = "done" /\ locals[i].out.some)
                  => /\ startRes[i] = Panicked
                     /\ locals[i].ts.some
                     /\ ~chan[i].txAlive
             /\ waitPc[i] = "done" => waitRes[i] = Err("BrokenPipe")

\* The process was killed by a signal, start panicked and wait got BrokenPipe.
C11_Witness ==
    /\ proc[1].term.kind = "signaled"
    /\ startRes[1] = Panicked
    /\ waitRes[1] = Err("BrokenPipe")

\* C12: start does not retry.  (a) One invocation spawns at most once and
\* attempts the transfer at most once; a failure is the result of start and
\* start has ended with it.  (b) Once start has a result, nothing of start
\* changes any more.
C12_NoRetries ==
    /\ [](\A i \in Inv :
            /\ hist[i].spawns <= 1
            /\ hist[i].built <= 1
            /\ startRes[i] # NoResult => startPc[i] = "done"
            /\ proc[i].state = "failed" => startRes[i] = Err(proc[i].err)
            /\ (hist[i].built = 1 /\ hist[i].sent = 0)
                 => startRes[i] = Err("ConnectionRefused")
            /\ startRes[i].kind = "Err"
                 => startRes[i].err \in SpawnErrors \cup {OutputError, "ConnectionRefused"})
    /\ [][\A i \in Inv :
            startRes[i] # NoResult
              => /\ startRes[i]' = startRes[i]
                 /\ startPc[i]' = startPc[i]
                 /\ locals[i]' = locals[i]
                 /\ hist[i].spawns' = hist[i].spawns
                 /\ hist[i].built' = hist[i].built]_vars

\* start failed at the spawn, once, and never spawned again.
C12_Witness ==
    /\ proc[1].state = "failed"
    /\ hist[1].spawns = 1
    /\ startRes[1] = Err("PermissionDenied")

\* C13: when start has ended in any way, a wait on the paired consumer
\* endpoint ends: (a) with the Exit record when start transferred one,
\* otherwise with BrokenPipe, also after a spawn failure; (b) a wait that is
\* suspended when start has ended does not stay suspended.
C13_WaitEnds ==
    /\ [](\A i \in Inv :
            waitPc[i] = "done"
              => /\ startPc[i] = "done"
                 /\ hist[i].sent = 1 => waitRes[i] = Ok(hist[i].rec.v)
                 /\ hist[i].sent = 0 => waitRes[i] = Err("BrokenPipe")
                 /\ startRes[i].kind # "Ok" => waitRes[i] = Err("BrokenPipe"))
    /\ \A i \in Inv :
         (startPc[i] = "done" /\ waitPc[i] = "awaiting")
           ~> (waitPc[i] \in {"done", "dropped"})

\* wait was suspended first, the spawn then failed and wait got BrokenPipe.
C13_Witness ==
    /\ hist[1].order = "wait_first"
    /\ proc[1].state = "failed"
    /\ startRes[1].kind = "Err"
    /\ waitRes[1] = Err("BrokenPipe")

\* C14: the outcomes of a pair agree.  start never has ConnectionRefused
\* while wait has an Exit record; when wait has an Exit record, start
\* returned Ok with an output whose status code is the record's status.
C14_OutcomesAgree ==
    \A i \in Inv :
        /\ ~(startRes[i] = Err("ConnectionRefused") /\ waitRes[i].kind = "Ok")
        /\ waitRes[i].kind = "Ok"
             => /\ startRes[i].kind = "Ok"
                /\ StatusCode(startRes[i].v.status) = Some(waitRes[i].v.status)

\* Both ended with success for a process that exited with code 1.
C14_Witness ==
    /\ waitRes[1].kind = "Ok"
    /\ startRes[1].kind = "Ok"
    /\ startRes[1].v.status = [kind |-> "exited", code |-> 1]

\* C15: the transfer does not wait for wait.  (a) At the transfer the step of
\* start is enabled whatever wait is doing.  (b) The transfer makes start
\* return Ok exactly when the consumer endpoint exists at that moment.
\* (c) Once the process has terminated a start that is running ends.
C15_TransferNeverSuspends ==
    /\ [](\A i \in Inv : startPc[i] = "send" => ENABLED SendExit(i))
    /\ [][\A i \in Inv :
            (startPc[i] = "send" /\ startPc[i]' = "done" /\ hist[i].built' = 1)
              => (startRes[i]'.kind = "Ok" <=> chan[i].rxAlive)]_vars
    /\ \A i \in Inv :
         (startPc[i] \in {"pid", "wait", "ts", "send"} /\ proc[i].state = "exited")
           ~> (startPc[i] = "done")

\* start returned Ok; wait was never invoked and the consumer endpoint was
\* discarded afterwards with the record unread.
C15_Witness ==
    /\ startRes[1].kind = "Ok"
    /\ hist[1].sent = 1
    /\ hist[1].order = "start_first"
    /\ waitPc[1] = "dropped"
    /\ waitRes[1] = NoResult

\* C16: the pid is read after a successful spawn and before the child is
\* waited for, so Child::id() has it and the expect() cannot panic: a panic
\* of start comes only from the status code, after the timestamp was taken.
C16_PidAvailable ==
    \A i \in Inv :
        /\ startPc[i] = "pid"
             => /\ proc[i].state \in {"running", "exited"}
                /\ ~locals[i].out.some
                /\ ChildId(i) = Some(proc[i].pid)
        /\ startPc[i] \in {"wait", "ts", "send"} => locals[i].pid = proc[i].pid
        /\ locals[i].out.some => locals[i].pid = proc[i].pid
        /\ startRes[i] = Panicked => locals[i].ts.some

\* The process has already terminated when start reads the pid.
C16_Witness ==
    /\ startPc[1] = "pid"
    /\ proc[1].state = "exited"

====
